---- MODULE Spec2Model ----
(***************************************************************************)
(* Model of the media-to-text pipeline of Kleinanzeige-Creator:            *)
(* VideoProcessor.process_video (main.py) with its helpers                 *)
(* generate_description, translate_text, detect_language, _save_* and      *)
(* transcribe (transcribe_audio.py), driven by VideoApp.run or by a direct *)
(* caller.  Every blocking call of the pipeline is one step, so that two   *)
(* runs sharing the fixed output paths can be interleaved.                 *)
(***************************************************************************)
EXTENDS Integers, Sequences, FiniteSets, TLC

\* ---------------------------------------------------------------- bounds
\* Number of process_video invocations started one after the other.
MaxRuns == 2

\* ------------------------------------------------------------ static data
\* Two VideoProcessor objects (two sessions), each built on its own video.
Procs == {"p1", "p2"}

\* VideoProcessor.__init__: self.video_path
video_path == [p \in Procs |-> IF p = "p1" THEN "v1" ELSE "v2"]

\* VideoApp.__init__: self.target_languages
target_languages ==
    ("English" :> "en") @@ ("German" :> "de") @@ ("French" :> "fr") @@
    ("Spanish" :> "es") @@ ("Italian" :> "it")

\* options=list(self.target_languages.keys())
Labels == DOMAIN target_languages

\* the language codes the labels stand for
Codes == {target_languages[l] : l \in Labels}

\* the labels the modelled user picks and the codes a direct caller passes
PickedLabels == {"English", "German"}

PassedCodes == {"en", "de"}

\* language codes langdetect.detect may return for a transcript
DetectCodes == {"en", "de"}

\* detect_language's null result
None == "None"

NoSrc == "-"

\* ------------------------------------------------------------ text values
\* A Python value flowing through the pipeline.
\*   k     "list"  the empty list [] returned by transcribe on failure
\*         "str"   a string; empty iff src = NoSrc and not a draft
\*         "nofile" the content of a file that does not exist
\*   src   the video whose audio the text was transcribed from
\*   lang  what langdetect.detect answers for this text (None: it raises)
\*   draft TRUE for an English description draft produced by the generator
\*   tr    the target languages the text was successfully translated to
Val(k, src, lang, draft, tr) ==
    [k |-> k, src |-> src, lang |-> lang, draft |-> draft, tr |-> tr]

EmptyList == Val("list", NoSrc, None, FALSE, <<>>)

EmptyStr == Val("str", NoSrc, None, FALSE, <<>>)

NoFile == Val("nofile", NoSrc, None, FALSE, <<>>)

\* transcription.text of a non-empty transcription of video v
Raw(v, lang) == Val("str", v, lang, FALSE, <<>>)

IsStr(t) == t.k = "str"

\* len(t) == 0 for a list or a string
IsEmpty(t) == t.k = "list" \/ (t.k = "str" /\ t.src = NoSrc /\ ~t.draft)

\* ------------------------------------------------------------------ state
VARIABLES
    pc,               \* position of each processor's run in process_video
    via,              \* who called process_video: "ui" (VideoApp.run) or "direct"
    selected,         \* the label chosen in the selectbox ("-" for a direct call)
    target,           \* process_video's parameter target_lang
    transcript,       \* local variable transcript
    detected,         \* local variable detected_lang
    description,      \* local variable description
    exc,              \* the exception that escaped process_video, or "none"
    log,              \* the calls made by the run, in order
    runNo,            \* which invocation (1, 2, ...) the run is
    framesDir,        \* outputs/frames/           (video it was extracted from)
    audioFile,        \* outputs/audio/audio.mp3   (video it was extracted from)
    transcriptFile,   \* outputs/transcripts/transcript.txt
    descriptionFile,  \* outputs/description/description.txt
    started           \* number of process_video invocations so far

locals == <<pc, via, selected, target, transcript, detected, description, exc, log, runNo>>

files == <<framesDir, audioFile, transcriptFile, descriptionFile>>

vars == <<locals, files, started>>

Rest == {"idle", "returned", "raised"}

Call(op, stage, arg, ok) == [op |-> op, stage |-> stage, arg |-> arg, ok |-> ok]

Logged(r, c) == log' = [log EXCEPT ![r] = Append(@, c)]

Init ==
    /\ pc = [r \in Procs |-> "idle"]
    /\ via = [r \in Procs |-> "-"]
    /\ selected = [r \in Procs |-> "-"]
    /\ target = [r \in Procs |-> "-"]
    /\ transcript = [r \in Procs |-> NoFile]
    /\ detected = [r \in Procs |-> None]
    /\ description = [r \in Procs |-> NoFile]
    /\ exc = [r \in Procs |-> "none"]
    /\ log = [r \in Procs |-> <<>>]
    /\ runNo = [r \in Procs |-> 0]
    /\ framesDir = NoSrc
    /\ audioFile = NoSrc
    /\ transcriptFile = NoFile
    /\ descriptionFile = NoFile
    /\ started = 0

\* ------------------------------------------------------- pure operations

\* detect_language: langdetect raises on a non-string and on text without
\* features; the bare except turns every failure into None.
detect_language(text) ==
    IF IsStr(text) /\ ~IsEmpty(text) THEN text.lang ELSE None

\* variant of translate_text whose except branch loses the text
translate_textLosesText(text, target_lang, ok) ==
    IF ok THEN [text EXCEPT !.tr = Append(@, target_lang), !.lang = target_lang]
          ELSE EmptyStr

\* translate_text: the chat completion either answers (ok) or raises; the
\* except branch returns the text it was given.
translate_text(text, target_lang, ok) ==
    IF ok THEN [text EXCEPT !.tr = Append(@, target_lang), !.lang = target_lang]
          ELSE text

\* variant of NeedsTranslation that forgets the test for a null detection
NeedsTranslationNoNullTest(detected_lang, target_lang) ==
    detected_lang # target_lang

\* the condition of the transcript translation in process_video
NeedsTranslation(detected_lang, target_lang) ==
    detected_lang # None /\ detected_lang # target_lang

\* response.choices[0].message.content of the generation call
Draft(text) == Val("str", text.src, "en", TRUE, <<>>)

\* open(path, 'w') truncates the file; f.write(x) raises TypeError unless
\* x is a str.  The content the file is left with:
Written(x) == IF IsStr(x) THEN x ELSE EmptyStr

\* variant of Raise that records the failure but lets the run carry on
RaiseAndCarryOn(r, e) ==
    /\ exc' = [exc EXCEPT ![r] = e]
    /\ pc' = [pc EXCEPT ![r] = IF pc[r] = "frames" THEN "audio"
                               ELSE IF pc[r] = "audio" THEN "transcribe"
                               ELSE IF pc[r] = "save_t" THEN "generate"
                               ELSE "raised"]

\* process_video's except clause logs and re-raises.
Raise(r, e) ==
    /\ pc' = [pc EXCEPT ![r] = "raised"]
    /\ exc' = [exc EXCEPT ![r] = e]

Goto(r, l) ==
    /\ pc' = [pc EXCEPT ![r] = l]
    /\ exc' = exc

\* variant of DescriptionNeedsTranslation that translates every draft
AlwaysTranslateDescription(target_lang) == TRUE

\* the condition of the description translation in generate_description
DescriptionNeedsTranslation(target_lang) == target_lang # "en"

\* extract_frames(video_path, frames_dir, frame_interval=60): the frames
\* directory after the call; a failing call raises and leaves it alone.
extract_frames(dir, v, ok) == IF ok THEN v ELSE dir

\* extract_audio(video_path, audio_path): the audio file after the call.
extract_audio(file, v, ok) == IF ok THEN v ELSE file

\* what the speech-to-text call can do: raise, answer without a text
\* attribute, answer with empty text, answer with text of some language
TranscribeOutcomes ==
    [kind : {"error", "notext", "empty"}, lang : {None}] \cup
    [kind : {"text"}, lang : DetectCodes \cup {None}]

\* transcribe(audio_path): a missing file, a failing call and a response
\* without text all end in `return []`.
transcribe(audio, out) ==
    IF audio = NoSrc THEN EmptyList
    ELSE IF out.kind \in {"error", "notext"} THEN EmptyList
    ELSE IF out.kind = "empty" THEN EmptyStr
    ELSE Raw(audio, out.lang)

\* ---------------------------------------------------------------- callers

\* One run at a time: the caller's invocation is synchronous.
OneAtATime(r) == \A q \in Procs \ {r} : pc[q] \in Rest

\* variant of CanEnter in which a run waits for the other run to finish
CanEnterExclusive(r) == OneAtATime(r)

\* process_video takes no lock on the output paths before it starts.
CanEnter(r) == TRUE

\* entry of process_video(target_lang) on a fresh VideoProcessor
Begin(r, how, label, target_lang) ==
    /\ started' = started + 1
    /\ runNo' = [runNo EXCEPT ![r] = started + 1]
    /\ pc' = [pc EXCEPT ![r] = "frames"]
    /\ via' = [via EXCEPT ![r] = how]
    /\ selected' = [selected EXCEPT ![r] = label]
    /\ target' = [target EXCEPT ![r] = target_lang]
    /\ transcript' = [transcript EXCEPT ![r] = NoFile]
    /\ detected' = [detected EXCEPT ![r] = None]
    /\ description' = [description EXCEPT ![r] = NoFile]
    /\ exc' = [exc EXCEPT ![r] = "none"]
    /\ log' = [log EXCEPT ![r] = <<>>]
    /\ UNCHANGED files

\* VideoApp.run: the selectbox yields one of the labels, and that value is
\* what is handed to process_video.
UIStart(r) ==
    /\ pc[r] \in Rest
    /\ started < MaxRuns
    /\ OneAtATime(r)
    /\ \E label \in PickedLabels : Begin(r, "ui", label, label)

\* a caller other than the UI invoking process_video with a language code
DirectStart(r) ==
    /\ pc[r] \in Rest
    /\ started < MaxRuns
    /\ OneAtATime(r)
    /\ \E code \in PassedCodes : Begin(r, "direct", "-", code)

\* the same two entries in two sessions that each run once and may overlap
UIStartConc(r) ==
    /\ pc[r] = "idle"
    /\ CanEnter(r)
    /\ \E label \in PickedLabels : Begin(r, "ui", label, label)

DirectStartConc(r) ==
    /\ pc[r] = "idle"
    /\ CanEnter(r)
    /\ \E code \in PassedCodes : Begin(r, "direct", "-", code)

\* ------------------------------------------------- stages of process_video

\* variant of ExtractionAborts that logs the failure and carries on
ExtractionSwallowed(r) ==
    Goto(r, IF pc[r] = "frames" THEN "audio" ELSE "transcribe")

\* an extraction failure reaches process_video's except clause: log, raise
ExtractionAborts(r) == Raise(r, "ExtractionError")

ExtractFrames(r) ==
    /\ pc[r] = "frames"
    /\ \E ok \in BOOLEAN :
        /\ framesDir' = extract_frames(framesDir, video_path[r], ok)
        /\ Logged(r, Call("extract_frames", "extract", NoFile, ok))
        /\ IF ok THEN Goto(r, "audio") ELSE ExtractionAborts(r)
    /\ UNCHANGED <<runNo, via, selected, target, transcript, detected, description,
                   audioFile, transcriptFile, descriptionFile, started>>

ExtractAudio(r) ==
    /\ pc[r] = "audio"
    /\ \E ok \in BOOLEAN :
        /\ audioFile' = extract_audio(audioFile, video_path[r], ok)
        /\ Logged(r, Call("extract_audio", "extract", NoFile, ok))
        /\ IF ok THEN Goto(r, "transcribe") ELSE ExtractionAborts(r)
    /\ UNCHANGED <<runNo, via, selected, target, transcript, detected, description,
                   framesDir, transcriptFile, descriptionFile, started>>

\* variant of Transcribe that goes straight on to saving the transcript
TranscribeWithoutDetection(r) ==
    /\ pc[r] = "transcribe"
    /\ \E out \in TranscribeOutcomes :
        /\ transcript' = [transcript EXCEPT ![r] = transcribe(audioFile, out)]
        /\ Logged(r, Call("transcribe", "transcript", NoFile,
                          audioFile # NoSrc /\ out.kind \in {"empty", "text"}))
    /\ Goto(r, "save_t")
    /\ UNCHANGED <<runNo, via, selected, target, detected, description, files, started>>

Transcribe(r) ==
    /\ pc[r] = "transcribe"
    /\ \E out \in TranscribeOutcomes :
        /\ transcript' = [transcript EXCEPT ![r] = transcribe(audioFile, out)]
        /\ Logged(r, Call("transcribe", "transcript", NoFile,
                          audioFile # NoSrc /\ out.kind \in {"empty", "text"}))
    /\ Goto(r, "detect")
    /\ UNCHANGED <<runNo, via, selected, target, detected, description, files, started>>

DetectLanguage(r) ==
    /\ pc[r] = "detect"
    /\ LET d == detect_language(transcript[r]) IN
        /\ detected' = [detected EXCEPT ![r] = d]
        /\ Logged(r, Call("detect_language", "transcript", transcript[r], d # None))
        /\ Goto(r, IF NeedsTranslation(d, target[r]) THEN "translate_t" ELSE "save_t")
    /\ UNCHANGED <<runNo, via, selected, target, transcript, description, files, started>>

\* variant of TranslateTranscript that detects the language again afterwards
TranslateTranscriptRedetects(r) ==
    /\ pc[r] = "translate_t"
    /\ \E ok \in BOOLEAN :
        /\ transcript' = [transcript EXCEPT ![r] = translate_text(@, target[r], ok)]
        /\ detected' = [detected EXCEPT ![r] = detect_language(translate_text(transcript[r], target[r], ok))]
        /\ Logged(r, Call("translate_text", "transcript", transcript[r], ok))
    /\ Goto(r, "save_t")
    /\ UNCHANGED <<runNo, via, selected, target, description, files, started>>

TranslateTranscript(r) ==
    /\ pc[r] = "translate_t"
    /\ \E ok \in BOOLEAN :
        /\ transcript' = [transcript EXCEPT ![r] = translate_text(@, target[r], ok)]
        /\ Logged(r, Call("translate_text", "transcript", transcript[r], ok))
    /\ Goto(r, "save_t")
    /\ UNCHANGED <<runNo, via, selected, target, detected, description, files, started>>

\* variant of SaveTranscripts that writes the transcript as it was before
\* translation
SaveTranscriptsUntranslated(r) ==
    /\ pc[r] = "save_t"
    /\ transcriptFile' = Written([transcript[r] EXCEPT !.tr = <<>>])
    /\ Logged(r, Call("_save_transcripts", "transcript", transcript[r], IsStr(transcript[r])))
    /\ IF IsStr(transcript[r]) THEN Goto(r, "generate") ELSE Raise(r, "TypeError")
    /\ UNCHANGED <<runNo, via, selected, target, transcript, detected, description,
                   framesDir, audioFile, descriptionFile, started>>

\* _save_transcripts, and the TypeError of f.write on a non-string
SaveTranscripts(r) ==
    /\ pc[r] = "save_t"
    /\ transcriptFile' = Written(transcript[r])
    /\ Logged(r, Call("_save_transcripts", "transcript", transcript[r], IsStr(transcript[r])))
    /\ IF IsStr(transcript[r]) THEN Goto(r, "generate") ELSE Raise(r, "TypeError")
    /\ UNCHANGED <<runNo, via, selected, target, transcript, detected, description,
                   framesDir, audioFile, descriptionFile, started>>

\* variant of GenerationAborts that degrades to an empty description
GenerationSwallowed(r) ==
    /\ Goto(r, "save_d")
    /\ description' = [description EXCEPT ![r] = EmptyStr]

\* generate_description's except clause logs and re-raises, and so does
\* process_video's
GenerationAborts(r) ==
    /\ Raise(r, "GenerationError")
    /\ UNCHANGED description

\* generate_description up to the generation call
Generate(r) ==
    /\ pc[r] = "generate"
    /\ \E ok \in BOOLEAN :
        /\ Logged(r, Call("generate_description", "description", transcript[r], ok))
        /\ IF ok
           THEN /\ description' = [description EXCEPT ![r] = Draft(transcript[r])]
                /\ Goto(r, IF DescriptionNeedsTranslation(target[r])
                           THEN "translate_d" ELSE "save_d")
           ELSE GenerationAborts(r)
    /\ UNCHANGED <<runNo, via, selected, target, transcript, detected, files, started>>

\* generate_description's translation of the draft
TranslateDescription(r) ==
    /\ pc[r] = "translate_d"
    /\ \E ok \in BOOLEAN :
        /\ description' = [description EXCEPT ![r] = translate_text(@, target[r], ok)]
        /\ Logged(r, Call("translate_text", "description", description[r], ok))
    /\ Goto(r, "save_d")
    /\ UNCHANGED <<runNo, via, selected, target, transcript, detected, files, started>>

\* _save_description and the return of (transcript, description)
SaveDescription(r) ==
    /\ pc[r] = "save_d"
    /\ descriptionFile' = Written(description[r])
    /\ Logged(r, Call("_save_description", "description", description[r], IsStr(description[r])))
    /\ IF IsStr(description[r]) THEN Goto(r, "returned") ELSE Raise(r, "TypeError")
    /\ UNCHANGED <<runNo, via, selected, target, transcript, detected, description,
                   framesDir, audioFile, transcriptFile, started>>

Stage(r) ==
    \/ ExtractFrames(r)
    \/ ExtractAudio(r)
    \/ Transcribe(r)
    \/ DetectLanguage(r)
    \/ TranslateTranscript(r)
    \/ SaveTranscripts(r)
    \/ Generate(r)
    \/ TranslateDescription(r)
    \/ SaveDescription(r)

\* runs one at a time, as the UI drives them
Next == \E r \in Procs : UIStart(r) \/ DirectStart(r) \/ Stage(r)

Spec == Init /\ [][Next]_vars

\* two sessions whose runs may overlap
NextConc == \E r \in Procs : UIStartConc(r) \/ DirectStartConc(r) \/ Stage(r)

SpecConc == Init /\ [][NextConc]_vars

\* ------------------------------------------------------------- properties

\* the positions of the calls of op made by run r in the given stage
CallsOf(r, op, stage) ==
    {i \in DOMAIN log[r] : log[r][i].op = op /\ log[r][i].stage = stage}

Invoked(r, op, stage) == CallsOf(r, op, stage) # {}

Failed(r, op, stage) == \E i \in CallsOf(r, op, stage) : ~log[r][i].ok

\* the run of r is the most recent invocation, so the files are as it left them
Latest(r) == runNo[r] = started /\ started > 0

\* C1: a run of process_video that fails, fails with an extraction failure
\* or a description-generation failure; nothing of another origin escapes.
C1_OnlyFatalStagesEscape ==
    \A r \in Procs :
        pc[r] = "raised" => exc[r] \in {"ExtractionError", "GenerationError"}

\* C2: when the transcription call fails the run does not abort: the empty
\* transcript is saved as empty text and the run goes on to the description
\* stage.
C2_TranscriptionFailureContinues ==
    \A r \in Procs :
        Failed(r, "transcribe", "transcript") =>
            /\ ~Failed(r, "_save_transcripts", "transcript")
            /\ pc[r] = "raised" => Invoked(r, "generate_description", "description")
            /\ \A i \in CallsOf(r, "_save_transcripts", "transcript") :
                   log[r][i].arg = EmptyStr

\* C3: Translator is invoked on the transcript if and only if detection
\* returned a non-null code different from the target language; it is
\* invoked at most once, and never when the detected language equals the
\* target or when detection yielded null.
C3_TranslateIffDetectedDiffers ==
    \A r \in Procs :
        LET n == Cardinality(CallsOf(r, "translate_text", "transcript")) IN
        /\ n <= 1
        /\ n = 1 => /\ Invoked(r, "detect_language", "transcript")
                    /\ detected[r] # None
                    /\ detected[r] # target[r]
        /\ (/\ Invoked(r, "detect_language", "transcript")
            /\ detected[r] # None
            /\ detected[r] # target[r])
           => (n = 1 \/ pc[r] = "translate_t")

\* C3 witness: a run that returned without translating a transcript whose
\* detected language is the target, and one that saved after a null detection
C3_Witness ==
    /\ \E r \in Procs :
        /\ pc[r] = "returned"
        /\ detected[r] = target[r]
        /\ ~Invoked(r, "translate_text", "transcript")
    /\ \E r \in Procs :
        /\ Invoked(r, "_save_transcripts", "transcript")
        /\ detected[r] = None
        /\ ~IsEmpty(transcript[r])

\* C4: the target language the UI passes into process_video is the code of
\* the selected label, one of en, de, fr, es, it; so selecting English with
\* a transcript detected as en causes no Translator call in either stage.
C4_UIPassesLanguageCode ==
    \A r \in Procs :
        via[r] = "ui" =>
            /\ target[r] \in Codes
            /\ target[r] = target_languages[selected[r]]
            /\ (selected[r] = "English" /\ detected[r] = "en") =>
                   /\ ~Invoked(r, "translate_text", "transcript")
                   /\ ~Invoked(r, "translate_text", "description")

\* C5: generate_description is never invoked with an empty transcript, so a
\* non-empty description is persisted only for a non-empty transcript.
C5_NoGenerationOnEmptyTranscript ==
    \A r \in Procs :
        /\ \A i \in CallsOf(r, "generate_description", "description") :
               ~IsEmpty(log[r][i].arg)
        /\ \A i \in CallsOf(r, "_save_description", "description") :
               ~IsEmpty(log[r][i].arg) => ~IsEmpty(transcript[r])

\* C6: when the generation call fails, the failure reaches the caller of
\* process_video; the transcript file already holds the final transcript of
\* this run, and the run does not write the description file.
C6_GenerationFailurePropagates ==
    /\ [](\A r \in Procs :
            Failed(r, "generate_description", "description") =>
                /\ pc[r] = "raised"
                /\ exc[r] = "GenerationError"
                /\ \E i \in CallsOf(r, "_save_transcripts", "transcript") :
                       log[r][i].ok /\ log[r][i].arg = transcript[r]
                /\ Latest(r) => transcriptFile = transcript[r]
                /\ ~Invoked(r, "_save_description", "description"))
    /\ [][\A r \in Procs :
            (pc[r] = "generate" /\ pc'[r] = "raised") =>
                /\ descriptionFile' = descriptionFile
                /\ transcriptFile' = transcriptFile]_vars

\* C6 witness: a run has failed in generation after translating and saving
\* its transcript, while the description file holds an earlier run's text
C6_Witness ==
    \E r \in Procs :
        /\ Failed(r, "generate_description", "description")
        /\ Latest(r)
        /\ transcript[r].tr # <<>>
        /\ transcriptFile.src = video_path[r]
        /\ descriptionFile # NoFile
        /\ descriptionFile.src # video_path[r]

\* C7: when frame or audio extraction fails the run aborts at once with
\* that failure; no later stage is invoked and the run writes neither the
\* transcript file nor the description file.
C7_ExtractionFailureAborts ==
    /\ [](\A r \in Procs :
            (Failed(r, "extract_frames", "extract") \/ Failed(r, "extract_audio", "extract")) =>
                /\ pc[r] = "raised"
                /\ exc[r] = "ExtractionError"
                /\ ~log[r][Len(log[r])].ok
                /\ \A i \in DOMAIN log[r] :
                       log[r][i].op \in {"extract_frames", "extract_audio"})
    /\ [][\A r \in Procs :
            (pc[r] \in {"frames", "audio"} /\ pc'[r] # pc[r]) =>
                /\ descriptionFile' = descriptionFile
                /\ transcriptFile' = transcriptFile]_vars

\* C7 witness: audio extraction has failed after frames were extracted, in
\* a run that follows one which left a transcript and a description behind
C7_Witness ==
    \E r \in Procs :
        /\ Failed(r, "extract_audio", "extract")
        /\ Latest(r)
        /\ framesDir = video_path[r]
        /\ transcriptFile # NoFile
        /\ descriptionFile # NoFile

\* C8: generate_description with target language en never invokes
\* Translator; with another target language it invokes Translator exactly
\* once, on the English draft, after the generation call has succeeded
\* (and not at all when that call fails).
C8_DescriptionTranslation ==
    \A r \in Procs :
        LET g == CallsOf(r, "generate_description", "description")
            t == CallsOf(r, "translate_text", "description")
        IN  /\ Cardinality(t) <= 1
            /\ target[r] = "en" => t = {}
            /\ \A i \in t :
                   /\ target[r] # "en"
                   /\ \E j \in g : j < i /\ log[r][j].ok
                                   /\ log[r][i].arg = Val("str", log[r][j].arg.src, "en", TRUE, <<>>)
            /\ \A j \in g :
                   (log[r][j].ok /\ target[r] # "en" /\ pc[r] # "translate_d")
                       => Cardinality(t) = 1
            /\ \A j \in g : ~log[r][j].ok => t = {}

\* C8 witness: one run returned a description for target en and another
\* run returned one for a different target
C8_Witness ==
    /\ \E r \in Procs :
        /\ pc[r] = "returned"
        /\ target[r] = "en"
        /\ Invoked(r, "generate_description", "description")
    /\ \E r \in Procs :
        /\ pc[r] = "returned"
        /\ target[r] # "en"
        /\ Invoked(r, "translate_text", "description")

\* C9: translate_text never fails past its boundary and on a failure hands
\* back the text it was given: a run whose transcript translation fails
\* saves the untranslated transcript and goes on, and a run whose
\* description translation fails returns and saves the English draft.
C9_TranslationDegrades ==
    \A r \in Procs :
        /\ \A i \in CallsOf(r, "translate_text", "transcript") :
               ~log[r][i].ok =>
                   /\ transcript[r] = log[r][i].arg
                   /\ transcript[r].tr = <<>>
                   /\ pc[r] = "raised" => exc[r] = "GenerationError"
                   /\ \A j \in CallsOf(r, "_save_transcripts", "transcript") :
                          log[r][j].ok /\ log[r][j].arg = log[r][i].arg
                   /\ (Latest(r) /\ Invoked(r, "_save_transcripts", "transcript"))
                          => transcriptFile = log[r][i].arg
        /\ \A i \in CallsOf(r, "translate_text", "description") :
               ~log[r][i].ok =>
                   /\ description[r] = log[r][i].arg
                   /\ description[r].draft /\ description[r].tr = <<>>
                   /\ pc[r] \in {"save_d", "returned"}
                   /\ (Latest(r) /\ pc[r] = "returned")
                          => descriptionFile = log[r][i].arg

\* C9 witness: a run returned after both its translations failed
C9_Witness ==
    \E r \in Procs :
        /\ pc[r] = "returned"
        /\ Failed(r, "translate_text", "transcript")
        /\ Failed(r, "translate_text", "description")
        /\ transcriptFile = transcript[r]
        /\ descriptionFile = description[r]

\* C10: nothing excludes a second run while one is under way on the same
\* output paths: whatever the other session is doing, an idle session can
\* enter process_video.  (The witness is the corruption this allows.)
C10_NoMutualExclusion ==
    \A r \in Procs :
        pc[r] = "idle" => ENABLED (UIStartConc(r) \/ DirectStartConc(r))

\* C10 witness: a run returned a transcript of the audio the other run
\* extracted, and a run returned while the transcript and description files
\* hold the other run's texts
C10_Witness ==
    /\ \E r \in Procs :
        /\ pc[r] = "returned"
        /\ transcript[r].src \notin {NoSrc, video_path[r]}
    /\ \E r \in Procs :
        /\ pc[r] = "returned"
        /\ transcriptFile # transcript[r]
        /\ descriptionFile # description[r]

\* C11: transcribe never raises, and for every failure (missing audio file,
\* failing call, response without a text field) it returns the empty string.
C11_TranscribeFailureIsEmptyString ==
    \A r \in Procs :
        Failed(r, "transcribe", "transcript") =>
            /\ exc[r] # "none" => Invoked(r, "detect_language", "transcript")
            /\ transcript[r] = EmptyStr

\* C12: in a run on its own that returns, the transcript file holds exactly
\* the returned transcript (the translated value when it was translated),
\* the description file holds exactly the returned description, and each
\* file was written exactly once by the run.
C12_FilesHoldReturnedPair ==
    /\ [](\A r \in Procs :
            (pc[r] = "returned" /\ Latest(r)) =>
                /\ transcriptFile = transcript[r]
                /\ descriptionFile = description[r]
                /\ (\E i \in CallsOf(r, "translate_text", "transcript") : log[r][i].ok)
                       => transcriptFile.tr = <<target[r]>>
                /\ Cardinality(CallsOf(r, "_save_transcripts", "transcript")) = 1
                /\ Cardinality(CallsOf(r, "_save_description", "description")) = 1)
    /\ [][/\ transcriptFile' # transcriptFile =>
                \E r \in Procs : pc[r] = "save_t" /\ pc'[r] # "save_t"
          /\ descriptionFile' # descriptionFile =>
                \E r \in Procs : pc[r] = "save_d" /\ pc'[r] # "save_d"]_vars

\* C12 witness: a second run returned a translated transcript and a
\* translated description, overwriting what the first run had left
C12_Witness ==
    \E r \in Procs :
        /\ pc[r] = "returned"
        /\ runNo[r] = 2 /\ started = 2
        /\ transcript[r].tr # <<>>
        /\ description[r].tr # <<>>
        /\ \E q \in Procs \ {r} : pc[q] = "returned"

\* the stages a run has gone through, the translation of the description
\* (a part of the generation stage) left out
StagesOf(r) ==
    LET keep == {i \in DOMAIN log[r] :
                    ~(log[r][i].op = "translate_text" /\ log[r][i].stage = "description")}
        F[n \in 0..Len(log[r])] ==
            IF n = 0 THEN <<>>
            ELSE IF n \in keep THEN Append(F[n-1], log[r][n].op) ELSE F[n-1]
    IN  F[Len(log[r])]

IsPrefix(a, b) == Len(a) <= Len(b) /\ \A i \in DOMAIN a : a[i] = b[i]

\* C13: within a run the stages occur in the order frame extraction, audio
\* extraction, transcription, language detection, optional transcript
\* translation, transcript save, description generation, description save;
\* a run that returns has skipped none but the transcript translation.
C13_StagesInOrder ==
    LET Full == <<"extract_frames", "extract_audio", "transcribe", "detect_language",
                  "translate_text", "_save_transcripts", "generate_description",
                  "_save_description">>
        Short == <<"extract_frames", "extract_audio", "transcribe", "detect_language",
                   "_save_transcripts", "generate_description", "_save_description">>
    IN  \A r \in Procs :
            /\ IsPrefix(StagesOf(r), Full) \/ IsPrefix(StagesOf(r), Short)
            /\ pc[r] = "returned" => StagesOf(r) \in {Full, Short}
            /\ \A i \in CallsOf(r, "translate_text", "description") :
                   /\ i > 1
                   /\ log[r][i-1].op = "generate_description"

\* C13 witness: one run returned having translated its transcript and
\* another returned without translating it
C13_Witness ==
    /\ \E r \in Procs :
        pc[r] = "returned" /\ Invoked(r, "translate_text", "transcript")
    /\ \E r \in Procs :
        pc[r] = "returned" /\ ~Invoked(r, "translate_text", "transcript")

\* the call of op completed successfully in run r
Completed(r, op) == \E i \in DOMAIN log[r] : log[r][i].op = op /\ log[r][i].ok

\* C14: Error is terminal and rolls nothing back: a run that has failed
\* invokes no further stage, and the frames, the audio and the transcript
\* file written by its completed stages stay as they were written.
C14_ErrorIsTerminalNoRollback ==
    /\ [][\A r \in Procs :
            (exc[r] # "none" /\ exc'[r] # "none") =>
                (log'[r] = log[r] /\ pc'[r] = pc[r])]_vars
    /\ [][\A r \in Procs :
            (exc[r] = "none" /\ exc'[r] # "none") =>
                /\ Completed(r, "extract_frames") => framesDir' = framesDir
                /\ Completed(r, "extract_audio") => audioFile' = audioFile
                /\ Completed(r, "_save_transcripts") => transcriptFile' = transcriptFile]_vars
    /\ [](\A r \in Procs :
            (exc[r] # "none" /\ Latest(r)) =>
                /\ pc[r] = "raised"
                /\ Completed(r, "extract_frames") => framesDir = video_path[r]
                /\ Completed(r, "extract_audio") => audioFile = video_path[r]
                /\ Completed(r, "_save_transcripts") => transcriptFile = transcript[r])

\* C14 witness: a run failed in generation with its frames, audio and
\* transcript file in place
C14_Witness ==
    \E r \in Procs :
        /\ exc[r] = "GenerationError"
        /\ Latest(r)
        /\ framesDir = video_path[r]
        /\ audioFile = video_path[r]
        /\ transcriptFile = transcript[r]
        /\ transcriptFile.src = video_path[r]

\* C15: language detection happens at most once per run, on the raw
\* transcript before any translation; the detected code is not recomputed
\* after translation; and detect_language never raises: on an empty or
\* non-text transcript its result is null and the run goes on.
C15_DetectOnceOnRawTranscript ==
    /\ [](\A r \in Procs :
            LET dc == CallsOf(r, "detect_language", "transcript") IN
            /\ Cardinality(dc) <= 1
            /\ \A i \in dc :
                /\ log[r][i].arg.tr = <<>>
                /\ \A j \in DOMAIN log[r] : log[r][j].op = "translate_text" => i < j
                /\ log[r][i].op = "detect_language" /\ log[r][i-1].op = "transcribe"
                /\ (~IsStr(log[r][i].arg) \/ IsEmpty(log[r][i].arg)) => detected[r] = None
                /\ detected[r] = log[r][i].arg.lang
                /\ Len(log[r]) = i => pc[r] \in {"translate_t", "save_t"} /\ exc[r] = "none")
    /\ [][\A r \in Procs :
            detected'[r] # detected[r] => (pc[r] = "detect" \/ pc'[r] = "frames")]_vars

\* C15 witness: one run returned a transcript translated away from its
\* detected language, and another detected null on the [] of a failed
\* transcription
C15_Witness ==
    /\ \E r \in Procs :
        /\ pc[r] = "returned"
        /\ transcript[r].tr # <<>>
        /\ detected[r] \in DetectCodes
        /\ detected[r] # transcript[r].lang
    /\ \E r \in Procs :
        /\ \E i \in CallsOf(r, "detect_language", "transcript") : log[r][i].arg = EmptyList
        /\ detected[r] = None

====
